---- MODULE Spec2Model ----
(***************************************************************************)
(* Model of the filing selection and retrieval pipeline of                 *)
(* sec-downloader-go (package pkg/sec): identifier resolution, the         *)
(* rate-limited gateway, the filing matcher and the download orchestrator. *)
(*                                                                         *)
(* Go strings are modelled as tuples of one-character strings, so that     *)
(* case folding, suffix tests, hyphen removal and date parsing are         *)
(* computed character by character as the library routines do.             *)
(* Instants (time.Time) are integers: day number * TicksPerDay + time of   *)
(* day.                                                                    *)
(***************************************************************************)
EXTENDS Integers, Sequences, FiniteSets, TLC

VARIABLES
    pc,             \* position of the single caller thread
    stage,          \* the gateway call in progress: mapping, history, index, primary, details
    idx,            \* position in toDownload of the filing being processed
    downloadCount,  \* downloadCount of FetchAndSaveFilings
    ret,            \* (count, error) returned by the last Get / GetWithOptions
    call,           \* arguments of the last Get / GetWithOptions
    meta,           \* *DownloadMetadata of the call in progress (Nil when none)
    hist,           \* decoded SubmissionData.Filings.Recent (Nil when none)
    agg,            \* outcome of the filter loop of AggregateFilingsToDownload
    toDownload,     \* the slice returned by AggregateFilingsToDownload
    tickerToCIKMap, \* Downloader.tickerToCIKMap (empty before NewDownloader returns)
    tokens,         \* content of the limiter's bucket, in ticks of refill
    sinceAcq,       \* ticks since the last token was acquired (saturating)
    sinceSend,      \* ticks since the last request was sent (saturating)
    acquired,       \* tokens acquired since the current operation began
    requests,       \* requests sent since the current operation began
    log,            \* outcome of every document fetch of the current operation
    gwSent,         \* requests sent by the gateway call in progress
    resp,           \* the response being handled (Nil when none)
    cancelSignal,   \* the caller has asked to abort the current operation
    runs,           \* the matcher run on its own: metadata before and after, result, per run
    secClient       \* the SECClient: its userAgent, and the arguments it was created with

vars == <<pc, stage, idx, downloadCount, ret, call, meta, hist, agg, toDownload,
          tickerToCIKMap, tokens, sinceAcq, sinceSend, acquired, requests, log,
          gwSent, resp, cancelSignal, runs, secClient>>

\* absent values: a nil pointer, a nil map, a result not yet produced
Nil == [nil |-> TRUE]

(***************************************************************************)
(* Bounds of the model.                                                    *)
(***************************************************************************)
MaxRecords == 3

\* number of times the matcher is run on one history
MaxRuns == 2

(***************************************************************************)
(* Characters and strings.                                                 *)
(***************************************************************************)
LowerCase == <<"a","b","c","d","e","f","g","h","i","j","k","l","m",
               "n","o","p","q","r","s","t","u","v","w","x","y","z">>
UpperCase == <<"A","B","C","D","E","F","G","H","I","J","K","L","M",
               "N","O","P","Q","R","S","T","U","V","W","X","Y","Z">>
Digits == <<"0","1","2","3","4","5","6","7","8","9">>

IsDigit(c) == \E i \in 1..10 : Digits[i] = c
DigitVal(c) == (CHOOSE i \in 1..10 : Digits[i] = c) - 1

ToUpperChar(c) == IF \E i \in 1..26 : LowerCase[i] = c THEN UpperCase[CHOOSE i \in 1..26 : LowerCase[i] = c] ELSE c
ToLowerChar(c) == IF \E i \in 1..26 : UpperCase[i] = c THEN LowerCase[CHOOSE i \in 1..26 : UpperCase[i] = c] ELSE c

\* strings.ToUpper / strings.ToLower
ToUpper(s) == [i \in 1..Len(s) |-> ToUpperChar(s[i])]
ToLower(s) == [i \in 1..Len(s) |-> ToLowerChar(s[i])]

\* strings.EqualFold: equal under simple case folding, character by character
EqualFold(s, t) ==
    /\ Len(s) = Len(t)
    /\ \A i \in 1..Len(s) : ToLowerChar(s[i]) = ToLowerChar(t[i])

\* strings.HasSuffix / strings.TrimSuffix
HasSuffix(s, suf) ==
    /\ Len(suf) <= Len(s)
    /\ SubSeq(s, Len(s) - Len(suf) + 1, Len(s)) = suf
TrimSuffix(s, suf) == IF HasSuffix(s, suf) THEN SubSeq(s, 1, Len(s) - Len(suf)) ELSE s

\* strings.ReplaceAll(s, "-", "")
RemoveHyphens(s) == LET IsNotHyphen(c) == c # "-" IN SelectSeq(s, IsNotHyphen)

(***************************************************************************)
(* Dates.  time.Parse with the layout "2006-01-02": exactly four digits, a *)
(* hyphen, two digits, a hyphen, two digits, nothing after; the month must *)
(* be 1..12 and the day must exist in that month.                          *)
(***************************************************************************)
TicksPerDay == 2

DateFormatLen == 10

Num2(s, i) == DigitVal(s[i]) * 10 + DigitVal(s[i + 1])

DaysIn(m, y) ==
    IF m = 2 THEN (IF (y % 4 = 0) /\ ((y % 100 # 0) \/ (y % 400 = 0)) THEN 29 ELSE 28)
    ELSE IF m \in {4, 6, 9, 11} THEN 30 ELSE 31

\* days since 0000-03-01 of the proleptic Gregorian calendar
DaysFromCivil(y, m, d) ==
    LET yy  == IF m <= 2 THEN y - 1 ELSE y
        mp  == IF m > 2 THEN m - 3 ELSE m + 9
        doy == (153 * mp + 2) \div 5 + d - 1
    IN  365 * yy + yy \div 4 - yy \div 100 + yy \div 400 + doy

DateShapeOK(s) ==
    /\ Len(s) = DateFormatLen
    /\ \A i \in {1, 2, 3, 4, 6, 7, 9, 10} : IsDigit(s[i])
    /\ s[5] = "-" /\ s[8] = "-"

\* time.Parse(DateFormat, s): [ok, t]; t is the instant of midnight of the day
ParseDate(s) ==
    IF ~DateShapeOK(s) THEN [ok |-> FALSE, t |-> 0]
    ELSE LET y == Num2(s, 1) * 100 + Num2(s, 3)
             m == Num2(s, 6)
             d == Num2(s, 9)
         IN  IF m < 1 \/ m > 12 \/ d < 1 \/ d > DaysIn(m, y)
             THEN [ok |-> FALSE, t |-> 0]
             ELSE [ok |-> TRUE, t |-> DaysFromCivil(y, m, d) * TicksPerDay]

\* time.Time.Before / time.Time.After
TimeBefore(a, b) == a < b
TimeAfter(a, b) == a > b

(***************************************************************************)
(* Program constants.                                                      *)
(***************************************************************************)
MaxInt32 == 2147483647

AmendsSuffix == <<"/", "A">>

AccessionDigits == 18

IndexSuffix == <<"-","i","n","d","e","x",".","h","t","m","l">>
HeadersSuffix == <<"-","i","n","d","e","x","-","h","e","a","d","e","r","s",".","h","t","m","l">>
DotHtm == <<".","h","t","m">>
DotHtml == <<".","h","t","m","l">>
PrimaryDocumentHtml ==
    <<"p","r","i","m","a","r","y","-","d","o","c","u","m","e","n","t",".","h","t","m","l">>

\* fmt.Sprintf(URLFilingArchive, cik, rawAccNum, accNum): the archive root,
\* the key, the un-hyphenated accession number, the index file name
URLFilingArchive(cik, rawAccNum, accNum) == <<"Archives", cik, rawAccNum, accNum \o IndexSuffix>>

\* fmt.Sprintf(URLFiling, cik, rawAccNum, doc)
URLFiling(cik, rawAccNum, doc) == <<"Archives", cik, rawAccNum, doc>>

EmptyString == <<>>

(***************************************************************************)
(* GetToDownload: the descriptor of one filing, or an error.               *)
(***************************************************************************)
DetailsDocSuffixOf(doc) ==
    IF EqualFold(doc, PrimaryDocumentHtml) THEN HeadersSuffix
    ELSE IF HasSuffix(ToLower(doc), DotHtm) \/ HasSuffix(ToLower(doc), DotHtml)
         THEN TrimSuffix(TrimSuffix(doc, DotHtm), DotHtml) \o HeadersSuffix
         ELSE EmptyString

\* a descriptor that keeps the un-hyphenated accession number only
GetToDownload_RawAccession(cik, accNum, doc) ==
    LET rawAccNum == RemoveHyphens(accNum)
    IN  IF Len(rawAccNum) # AccessionDigits
        THEN [err |-> TRUE, td |-> Nil]
        ELSE [err |-> FALSE,
              td  |-> [RawFilingURI     |-> URLFilingArchive(cik, rawAccNum, rawAccNum),
                       PrimaryDocURI    |-> IF doc # EmptyString
                                            THEN URLFiling(cik, rawAccNum, doc)
                                            ELSE EmptyString,
                       AccessionNumber  |-> rawAccNum,
                       DetailsDocSuffix |-> DetailsDocSuffixOf(doc)]]

\* a descriptor whose primary-document URI is built whatever the file name
GetToDownload_AlwaysPrimary(cik, accNum, doc) ==
    LET rawAccNum == RemoveHyphens(accNum)
    IN  IF Len(rawAccNum) # AccessionDigits
        THEN [err |-> TRUE, td |-> Nil]
        ELSE [err |-> FALSE,
              td  |-> [RawFilingURI     |-> URLFilingArchive(cik, rawAccNum, accNum),
                       PrimaryDocURI    |-> URLFiling(cik, rawAccNum, doc),
                       AccessionNumber  |-> accNum,
                       DetailsDocSuffix |-> DetailsDocSuffixOf(doc)]]

GetToDownload(cik, accNum, doc) ==
    LET rawAccNum == RemoveHyphens(accNum)
    IN  IF Len(rawAccNum) # AccessionDigits
        THEN [err |-> TRUE, td |-> Nil]
        ELSE [err |-> FALSE,
              td  |-> [RawFilingURI     |-> URLFilingArchive(cik, rawAccNum, accNum),
                       PrimaryDocURI    |-> IF doc # EmptyString
                                            THEN URLFiling(cik, rawAccNum, doc)
                                            ELSE EmptyString,
                       AccessionNumber  |-> accNum,
                       DetailsDocSuffix |-> DetailsDocSuffixOf(doc)]]

(***************************************************************************)
(* The filter loop of AggregateFilingsToDownload over the decoded history. *)
(* The history is four parallel arrays; reading an array past its end is   *)
(* a run-time panic.  Besides the returned slice and error the result      *)
(* records, for every loop iteration, the branch the iteration took.       *)
(***************************************************************************)
\* a form test that accepts any form beginning with the requested form
FormMatches_Prefix(form, metadata) ==
    /\ Len(form) >= Len(metadata.Form)
    /\ EqualFold(SubSeq(form, 1, Len(metadata.Form)), metadata.Form)

\* the form test of one record
FormMatches(form, metadata) ==
    IF ~EqualFold(form, metadata.Form)
    THEN ~(~metadata.IncludeAmends \/ ~EqualFold(form, metadata.Form \o AmendsSuffix))
    ELSE TRUE

\* a date-range test with exclusive bounds
OutsideDateRange_Exclusive(filingDate, metadata) ==
    ~TimeAfter(filingDate, metadata.After) \/ ~TimeBefore(filingDate, metadata.Before)

\* the date-range test of a parsed filing date
OutsideDateRange(filingDate, metadata) ==
    TimeBefore(filingDate, metadata.After) \/ TimeAfter(filingDate, metadata.Before)

\* an exclusion test that excludes nothing
ShouldSkip_Never(accessionNumber, metadata) == FALSE

\* metadata.AccessionNumbersToSkip != nil && metadata.AccessionNumbersToSkip[acc]
ShouldSkip(accessionNumber, metadata) ==
    /\ metadata.AccessionNumbersToSkip # Nil
    /\ accessionNumber \in DOMAIN metadata.AccessionNumbersToSkip
    /\ metadata.AccessionNumbersToSkip[accessionNumber]

\* a loop body that fails the whole match on an unparseable filing date
RowBranch_DateErrorAborts(filings, metadata, i) ==
    IF i > Len(filings.Form) THEN "panic"
    ELSE IF ~FormMatches(filings.Form[i], metadata) THEN "form"
    ELSE IF i > Len(filings.FilingDate) THEN "panic"
    ELSE IF ~ParseDate(filings.FilingDate[i]).ok THEN "error"
    ELSE IF OutsideDateRange(ParseDate(filings.FilingDate[i]).t, metadata) THEN "range"
    ELSE IF ShouldSkip(filings.AccessionNumber[i], metadata) THEN "skipped"
    ELSE IF i > Len(filings.PrimaryDocument) THEN "panic"
    ELSE IF GetToDownload(metadata.CIK, filings.AccessionNumber[i],
                          filings.PrimaryDocument[i]).err THEN "error"
    ELSE "added"

\* the branch taken by the loop body for row i
RowBranch(filings, metadata, i) ==
    IF i > Len(filings.Form) THEN "panic"
    ELSE IF ~FormMatches(filings.Form[i], metadata) THEN "form"
    ELSE IF i > Len(filings.FilingDate) THEN "panic"
    ELSE IF ~ParseDate(filings.FilingDate[i]).ok THEN "baddate"
    ELSE IF OutsideDateRange(ParseDate(filings.FilingDate[i]).t, metadata) THEN "range"
    ELSE IF ShouldSkip(filings.AccessionNumber[i], metadata) THEN "skipped"
    ELSE IF i > Len(filings.PrimaryDocument) THEN "panic"
    ELSE IF GetToDownload(metadata.CIK, filings.AccessionNumber[i],
                          filings.PrimaryDocument[i]).err THEN "error"
    ELSE "added"

\* a loop condition that lets one filing more than the limit through
LoopContinues_OffByOne(filings, metadata, i, collected) ==
    i <= Len(filings.AccessionNumber) /\ Len(collected) <= metadata.Limit

\* the loop condition: rows i = 1.. of the accession-number array, while the
\* number of filings collected is below the limit
LoopContinues(filings, metadata, i, collected) ==
    i <= Len(filings.AccessionNumber) /\ Len(collected) < metadata.Limit

RECURSIVE AggregateLoop(_, _, _, _, _)
AggregateLoop(filings, metadata, i, collected, trace) ==
    IF ~LoopContinues(filings, metadata, i, collected)
    THEN [kind |-> "ok", out |-> collected, trace |-> trace]
    ELSE LET b == RowBranch(filings, metadata, i)
         IN  CASE b = "panic" -> [kind |-> "panic", out |-> <<>>, trace |-> Append(trace, b)]
               [] b = "error" -> [kind |-> "error", out |-> <<>>, trace |-> Append(trace, b)]
               [] b = "added" ->
                    AggregateLoop(filings, metadata, i + 1,
                        Append(collected,
                               GetToDownload(metadata.CIK, filings.AccessionNumber[i],
                                             filings.PrimaryDocument[i]).td),
                        Append(trace, b))
               [] OTHER -> AggregateLoop(filings, metadata, i + 1, collected, Append(trace, b))

FilterFilings(filings, metadata) == AggregateLoop(filings, metadata, 1, <<>>, <<>>)

(***************************************************************************)
(* Inputs of the matcher: records of a filing history, histories, filter   *)
(* specifications.                                                         *)
(***************************************************************************)
Form10K == <<"1","0","-","K">>
Form10Q == <<"1","0","-","Q">>
Form10q == <<"1","0","-","q">>
Form10ka == <<"1","0","-","k","/","a">>
Form10KT == <<"1","0","-","K","T">>
Form10QA == <<"1","0","-","Q","/","A">>

Date20220102 == <<"2","0","2","2","-","0","1","-","0","2">>
Date20220230 == <<"2","0","2","2","-","0","2","-","3","0">>
DateSlashes == <<"0","1","/","0","2","/","2","0","2","2">>

Acc1 == <<"0","0","0","0","3","2","0","1","9","3","-","2","2","-","0","0","0","0","0","1">>
Acc2 == <<"0","0","0","0","3","2","0","1","9","3","-","2","2","-","0","0","0","0","0","2">>
Acc3 == <<"0","0","0","0","3","2","0","1","9","3","-","2","2","-","0","0","0","0","0","3">>
AccBad == <<"a","b","c">>
AccLetters == <<"0","0","0","0","3","2","0","1","9","X","-","2","2","-","0","0","0","0","0","4">>

DocHtm == <<"a",".","h","t","m">>
DocXml == <<"b",".","x","m","l">>

CIKApple == <<"0","0","0","0","3","2","0","1","9","3">>

\* instants used as date bounds (the day of Date20220102 is Day0)
Day0 == ParseDate(Date20220102).t
Noon == TicksPerDay \div 2
DayTicks(n) == Day0 + n * TicksPerDay

Rec(form, date, acc, doc) ==
    [Form |-> form, FilingDate |-> date, AccessionNumber |-> acc, PrimaryDocument |-> doc]

MatchRecords ==
    { Rec(Form10K,  Date20220102, Acc1,   DocHtm),
      Rec(Form10ka, Date20220102, Acc2,   EmptyString),
      Rec(Form10K,  Date20220230, Acc3,   DocHtm),
      Rec(Form10KT, DateSlashes,  Acc3,   DocXml),
      Rec(Form10K,  Date20220102, AccBad, DocHtm),
      Rec(Form10QA, Date20220102, AccLetters, DocXml) }

RECURSIVE SeqsUpTo(_, _)
SeqsUpTo(S, n) ==
    IF n = 0 THEN {<<>>}
    ELSE LET shorter == SeqsUpTo(S, n - 1)
         IN  shorter \cup {Append(q, x) : q \in {r \in shorter : Len(r) = n - 1}, x \in S}

\* the "recent" table decoded from the rows; short names the array, if any,
\* that arrived one element shorter than the accession-number array
Column(rows, field) == [i \in 1..Len(rows) |-> rows[i][field]]
Shorten(col) == IF Len(col) = 0 THEN col ELSE SubSeq(col, 1, Len(col) - 1)
Recent(rows, short) ==
    [f \in {"AccessionNumber", "FilingDate", "Form", "PrimaryDocument"} |->
        IF f = short THEN Shorten(Column(rows, f)) ELSE Column(rows, f)]

ShortColumns == {"none", "FilingDate", "Form", "PrimaryDocument"}

MatchHistories ==
    {Recent(rows, short) : rows \in SeqsUpTo(MatchRecords, MaxRecords), short \in ShortColumns}

\* (After, Before) pairs: the filing day on both bounds, one day before the
\* lower bound, one day after the upper bound, bounds with a time of day, an
\* empty range
RangeOnBounds == <<DayTicks(0), DayTicks(0)>>
MatchRanges ==
    { <<DayTicks(1), DayTicks(2)>>,
      <<DayTicks(-2), DayTicks(-1)>>,
      <<DayTicks(0) + Noon, DayTicks(1) + Noon>>,
      <<DayTicks(1), DayTicks(-1)>> }

SkipAcc1 == [a \in {Acc1, Acc2} |-> (a = Acc1)]

Metadata(form, cik, limit, range, amends, details, ticker, skip) ==
    [DownloadFolder |-> <<"d">>, Form |-> form, CIK |-> cik, Limit |-> limit,
     After |-> range[1], Before |-> range[2], IncludeAmends |-> amends,
     DownloadDetails |-> details, Ticker |-> ticker, AccessionNumbersToSkip |-> skip]

MatchMetas ==
    {Metadata(form, CIKApple, limit, RangeOnBounds, amends, FALSE, EmptyString, skip) :
        form \in {Form10K, Form10q}, limit \in {0, 1, 2, MaxInt32},
        amends \in BOOLEAN, skip \in {Nil, SkipAcc1}}
    \cup
    {Metadata(Form10K, CIKApple, limit, range, TRUE, FALSE, EmptyString, Nil) :
        limit \in {1, MaxInt32}, range \in MatchRanges}

(***************************************************************************)
(* The matcher on its own: a history and a filter specification are given, *)
(* MatchFilings runs the filter loop on them.                              *)
(***************************************************************************)
InitMatch ==
    /\ pc = "match"
    /\ meta \in MatchMetas
    /\ hist \in MatchHistories
    /\ agg = Nil
    /\ stage = "none" /\ idx = 0 /\ downloadCount = 0
    /\ ret = Nil /\ call = Nil /\ toDownload = <<>> /\ tickerToCIKMap = Nil
    /\ tokens = 0 /\ sinceAcq = 0 /\ sinceSend = 0 /\ acquired = 0
    /\ requests = <<>> /\ log = <<>> /\ gwSent = 0 /\ resp = Nil
    /\ cancelSignal = FALSE
    /\ runs = <<>>
    /\ secClient = Nil

\* a matcher that uses up the limit of the specification it is given
MetadataAfter_LimitConsumed(metadata, result) ==
    [metadata EXCEPT !.Limit = metadata.Limit - Len(result.out)]

\* *metadata when AggregateFilingsToDownload returns: the function reads the
\* fields and assigns none
MetadataAfter(metadata, result) == metadata

MatchFilings ==
    /\ pc \in {"match", "matched"}
    /\ Len(runs) < MaxRuns
    /\ LET result == FilterFilings(hist, meta)
       IN  /\ agg' = result
           /\ meta' = MetadataAfter(meta, result)
           /\ runs' = Append(runs, [before |-> meta, after |-> meta', result |-> result])
    /\ pc' = "matched"
    /\ UNCHANGED <<secClient, stage, idx, downloadCount, ret, call, hist, toDownload,
                   tickerToCIKMap, tokens, sinceAcq, sinceSend, acquired, requests,
                   log, gwSent, resp, cancelSignal>>

NextMatch == MatchFilings

SpecMatch == InitMatch /\ [][NextMatch]_vars

(***************************************************************************)
(* Identifier resolution.                                                  *)
(***************************************************************************)
CIKLength == 10

IsSpace(c) == c \in {" ", "\t", "\n", "\r"}

RECURSIVE TrimLeft(_)
TrimLeft(s) == IF Len(s) > 0 /\ IsSpace(s[1]) THEN TrimLeft(Tail(s)) ELSE s
RECURSIVE TrimRight(_)
TrimRight(s) ==
    IF Len(s) > 0 /\ IsSpace(s[Len(s)]) THEN TrimRight(SubSeq(s, 1, Len(s) - 1)) ELSE s
\* strings.TrimSpace
TrimSpace(s) == TrimRight(TrimLeft(s))

RECURSIVE StripZeros(_)
StripZeros(s) == IF Len(s) > 1 /\ s[1] = "0" THEN StripZeros(Tail(s)) ELSE s

\* a <= b for digit strings of equal length
RECURSIVE DigitsLE(_, _)
DigitsLE(a, b) ==
    IF Len(a) = 0 THEN TRUE
    ELSE IF DigitVal(a[1]) < DigitVal(b[1]) THEN TRUE
    ELSE IF DigitVal(a[1]) > DigitVal(b[1]) THEN FALSE
    ELSE DigitsLE(Tail(a), Tail(b))

\* strconv.Atoi succeeds: an optional sign, at least one digit, only digits,
\* and a value that fits the int type (64 bits: at most 9223372036854775807,
\* at least -9223372036854775808)
AtoiOK(s) ==
    LET MaxIntDigits == <<"9","2","2","3","3","7","2","0","3","6","8","5","4","7","7","5","8","0","7">>
        MinIntDigits == <<"9","2","2","3","3","7","2","0","3","6","8","5","4","7","7","5","8","0","8">>
        signed == Len(s) > 0 /\ s[1] \in {"+", "-"}
        body   == IF signed THEN Tail(s) ELSE s
        sig    == StripZeros(body)
        limit  == IF signed /\ s[1] = "-" THEN MinIntDigits ELSE MaxIntDigits
    IN  /\ Len(body) > 0
        /\ \A k \in 1..Len(body) : IsDigit(body[k])
        /\ \/ Len(sig) < Len(limit)
           \/ Len(sig) = Len(limit) /\ DigitsLE(sig, limit)

IsCIK(tickerOrCIK) == AtoiOK(tickerOrCIK)

\* fmt.Sprintf("%010s", s): s padded on the left with zeros to ten characters
RECURSIVE PadZeros(_, _)
PadZeros(s, width) == IF Len(s) >= width THEN s ELSE PadZeros(<<"0">> \o s, width)

\* [err, kind, cik]: kind names the failing check
ValidateAndConvertTickerOrCIK(input, tickerToCIKMapping) ==
    LET tickerOrCIK == TrimSpace(ToUpper(input))
    IN  IF tickerOrCIK = EmptyString
        THEN [err |-> TRUE, kind |-> "blank", cik |-> EmptyString]
        ELSE IF IsCIK(tickerOrCIK)
        THEN IF Len(tickerOrCIK) > CIKLength
             THEN [err |-> TRUE, kind |-> "cik too long", cik |-> EmptyString]
             ELSE [err |-> FALSE, kind |-> "cik", cik |-> PadZeros(tickerOrCIK, CIKLength)]
        ELSE IF tickerOrCIK \notin DOMAIN tickerToCIKMapping
        THEN [err |-> TRUE, kind |-> "unknown ticker", cik |-> EmptyString]
        ELSE [err |-> FALSE, kind |-> "ticker", cik |-> tickerToCIKMapping[tickerOrCIK]]

(***************************************************************************)
(* The resolver on its own: an identifier and a mapping are given, Resolve *)
(* applies ValidateAndConvertTickerOrCIK to them.                          *)
(***************************************************************************)
\* longest numeral given to the resolver
MaxDigits == 21

RECURSIVE Repeat(_, _)
Repeat(c, n) == IF n = 0 THEN <<>> ELSE <<c>> \o Repeat(c, n - 1)

SymAAPL == <<"A", "A", "P", "L">>
SymMSFT == <<"M", "S", "F", "T">>
CIKMicrosoft == <<"0","0","0","0","7","8","9","0","1","9">>

\* numerals of every length (all ones, all nines, a one behind zeros, a
\* numeral between spaces); symbols in both cases and between spaces, symbols
\* no mapping holds, signed numerals, blanks
ResolverInputs ==
    UNION {{Repeat("1", n), Repeat("9", n), Repeat("0", n - 1) \o <<"1">>,
            <<" ">> \o Repeat("7", n) \o <<" ">>} : n \in 1..MaxDigits}
    \cup
    { SymAAPL, <<"a", "a", "p", "l">>, <<"A", "a", "P", "l">>, <<" ", "a", "a", "p", "l", " ">>,
      SymMSFT, <<"m", "s", "f", "t">>, <<"Z", "Z">>, <<"A", "A", " ", "P", "L">>,
      <<"+", "5">>, <<"-", "5">>, <<"5", "-">>, <<"1", "2", "a">>,
      EmptyString, <<" ">> }

Mappings ==
    { <<>>,
      [t \in {SymAAPL} |-> CIKApple],
      [t \in {SymAAPL, SymMSFT} |-> IF t = SymAAPL THEN CIKApple ELSE CIKMicrosoft] }

InitResolve ==
    /\ pc = "resolve"
    /\ call \in {[tickerOrCIK |-> id] : id \in ResolverInputs}
    /\ tickerToCIKMap \in Mappings
    /\ ret = Nil
    /\ meta = Nil /\ hist = Nil /\ agg = Nil
    /\ stage = "none" /\ idx = 0 /\ downloadCount = 0 /\ toDownload = <<>>
    /\ tokens = 0 /\ sinceAcq = 0 /\ sinceSend = 0 /\ acquired = 0
    /\ requests = <<>> /\ log = <<>> /\ gwSent = 0 /\ resp = Nil
    /\ cancelSignal = FALSE
    /\ runs = <<>>
    /\ secClient = Nil

Resolve ==
    /\ pc = "resolve"
    /\ ret' = ValidateAndConvertTickerOrCIK(call.tickerOrCIK, tickerToCIKMap)
    /\ pc' = "resolved"
    /\ UNCHANGED <<runs, secClient, stage, idx, downloadCount, call, meta, hist, agg, toDownload,
                   tickerToCIKMap, tokens, sinceAcq, sinceSend, acquired, requests,
                   log, gwSent, resp, cancelSignal>>

NextResolve == Resolve

SpecResolve == InitResolve /\ [][NextResolve]_vars

(***************************************************************************)
(* GetToDownload on its own: a key, an accession number and a primary      *)
(* document name are given, Describe applies GetToDownload to them.        *)
(***************************************************************************)
Acc24 == <<"0","0","0","0","3","2","0","1","9","3","-","2","4","-","0","0","0","1","2","3">>
AccNoHyphens == RemoveHyphens(Acc1)

\* well-formed accession numbers, one without hyphens, one with hyphens in
\* other places, one a character short, one a character long, malformed ones
AccessionNumbers ==
    {Acc1, Acc2, Acc3, Acc24, AccNoHyphens,
     <<"-">> \o SubSeq(AccNoHyphens, 1, 9) \o <<"-", "-">> \o SubSeq(AccNoHyphens, 10, 18),
     SubSeq(Acc1, 1, 19),
     Acc1 \o <<"0">>,
     AccLetters, AccBad, EmptyString}

\* no name, names ending in .htm, .HTM, .html and .xml, a name without an
\* extension, names with two dots, the bare extension, the reserved name in
\* both cases
PrimaryDocuments ==
    {EmptyString, DocHtm, DocXml,
     <<"A", ".", "H", "T", "M">>,
     <<"x", ".", "h", "t", "m", "l">>,
     <<"R", "E", "A", "D", "M", "E">>,
     <<"a", ".", "h", "t", "m", ".", "t", "x", "t">>,
     <<"r", ".", "h", "t", "m", ".", "h", "t", "m", "l">>,
     DotHtm,
     PrimaryDocumentHtml, ToUpper(PrimaryDocumentHtml)}

InitDescribe ==
    /\ pc = "describe"
    /\ call \in [cik : {CIKApple, CIKMicrosoft}, accNum : AccessionNumbers,
                 doc : PrimaryDocuments]
    /\ ret = Nil
    /\ tickerToCIKMap = <<>>
    /\ meta = Nil /\ hist = Nil /\ agg = Nil
    /\ stage = "none" /\ idx = 0 /\ downloadCount = 0 /\ toDownload = <<>>
    /\ tokens = 0 /\ sinceAcq = 0 /\ sinceSend = 0 /\ acquired = 0
    /\ requests = <<>> /\ log = <<>> /\ gwSent = 0 /\ resp = Nil
    /\ cancelSignal = FALSE
    /\ runs = <<>>
    /\ secClient = Nil

Describe ==
    /\ pc = "describe"
    /\ ret' = GetToDownload(call.cik, call.accNum, call.doc)
    /\ pc' = "described"
    /\ UNCHANGED <<runs, secClient, stage, idx, downloadCount, call, meta, hist, agg, toDownload,
                   tickerToCIKMap, tokens, sinceAcq, sinceSend, acquired, requests,
                   log, gwSent, resp, cancelSignal>>

NextDescribe == Describe

SpecDescribe == InitDescribe /\ [][NextDescribe]_vars

(***************************************************************************)
(* The gateway: responses of the registry and what the three gateway       *)
(* operations make of them.  A response is a transport error (including    *)
(* the 30 s client timeout) or a status, a Content-Encoding header, the    *)
(* coding actually applied to the body, and the content.                   *)
(***************************************************************************)
Resp(status, encoding, coding, content) ==
    [neterr |-> FALSE, status |-> status, encoding |-> encoding,
     coding |-> coding, content |-> content]
NetErr ==
    [neterr |-> TRUE, status |-> 0, encoding |-> "", coding |-> "", content |-> [type |-> "none"]]

\* the four ways a 200 answer can carry its content, an error status, a
\* transport error
Answers(content) ==
    { Resp(200, "", "", content),
      Resp(200, "gzip", "gzip", content),
      Resp(200, "gzip", "", content),
      Resp(200, "deflate", "deflate", content),
      Resp(404, "", "", [type |-> "errorpage"]),
      Resp(500, "", "", [type |-> "errorpage"]),
      NetErr }

\* callSECWithContext without the status check
GatewayError_TransportOnly(r) == r.neterr

\* callSECWithContext returns an error: client.Do failed, or status not 200
GatewayError(r) == r.neterr \/ r.status # 200

\* getResponseBody followed by reading the body: [err, coding, content]
ResponseBody(r) ==
    IF r.encoding = "gzip"
    THEN IF r.coding = "gzip"
         THEN [err |-> FALSE, coding |-> "", content |-> r.content]
         ELSE [err |-> TRUE, coding |-> "", content |-> [type |-> "none"]]
    ELSE [err |-> FALSE, coding |-> r.coding, content |-> r.content]

\* DownloadFiling: the bytes read, or an error
DownloadFiling(r) ==
    IF GatewayError(r)
    THEN [err |-> TRUE, coding |-> "", content |-> [type |-> "none"]]
    ELSE ResponseBody(r)

\* json.Decode of a body: succeeds on uncoded content of the wanted type
Decode(body, type) ==
    IF body.err \/ body.coding # "" \/ body.content.type # type
    THEN [err |-> TRUE, data |-> Nil]
    ELSE [err |-> FALSE, data |-> body.content.data]

\* GetListOfAvailableFilings: the decoded "recent" table, or an error
GetListOfAvailableFilings(r) ==
    IF GatewayError(r) THEN [err |-> TRUE, data |-> Nil]
    ELSE Decode(ResponseBody(r), "history")

\* the rows of the symbol table, folded into the ticker -> CIK map; a cell
\* of a row is a JSON number or a JSON string
RECURSIVE TickerMapOf(_, _)
TickerMapOf(rows, m) ==
    IF rows = <<>> THEN m
    ELSE LET data == Head(rows)
         IN  IF Len(data) < 3 \/ data[1].t # "number" \/ data[3].t # "string"
             THEN TickerMapOf(Tail(rows), m)
             ELSE LET ticker == ToUpper(data[3].v)
                      cik    == PadZeros(data[1].v, CIKLength)
                  IN  TickerMapOf(Tail(rows),
                          [x \in DOMAIN m \cup {ticker} |-> IF x = ticker THEN cik ELSE m[x]])

\* fetchTickerMetadata: the map, or an error
FetchTickerMetadata(r) ==
    IF GatewayError(r) THEN [err |-> TRUE, data |-> Nil]
    ELSE LET d == Decode(ResponseBody(r), "tickers")
         IN  IF d.err THEN d ELSE [err |-> FALSE, data |-> TickerMapOf(d.data.data, <<>>)]

(***************************************************************************)
(* What the registry serves.                                               *)
(***************************************************************************)
TickerTable ==
    LET NumberCell(v) == [t |-> "number", v |-> v]
        StringCell(v) == [t |-> "string", v |-> v]
    IN  [fields |-> <<"cik", "name", "ticker", "exchange">>,
         data   |-> << <<NumberCell(<<"3","2","0","1","9","3">>), StringCell(<<"A">>),
                         StringCell(<<"A","A","P","L">>), StringCell(<<"N">>)>> >>]

\* two annual reports and an amendment; a malformed accession number in
\* second place; a form array shorter than the accession-number array
ServedHistories ==
    { Recent(<<Rec(Form10K,  Date20220102, Acc1, DocHtm),
               Rec(Form10K,  Date20220102, Acc2, EmptyString),
               Rec(Form10ka, Date20220102, Acc3, DocXml)>>, "none"),
      Recent(<<Rec(Form10K, Date20220102, Acc1,   DocHtm),
               Rec(Form10K, Date20220102, AccBad, DocHtm)>>, "none"),
      Recent(<<Rec(Form10K, Date20220102, Acc1, DocHtm)>>, "Form") }

Junk == [type |-> "junk"]

ServedFor(stg) ==
    IF stg = "mapping"
    THEN Answers([type |-> "tickers", data |-> TickerTable]) \cup {Resp(200, "", "", Junk)}
    ELSE IF stg = "history"
    THEN UNION {Answers([type |-> "history", data |-> h]) : h \in ServedHistories}
         \cup {Resp(200, "", "", Junk)}
    ELSE Answers([type |-> "doc"])

(***************************************************************************)
(* fetchTickerMetadata on its own: a symbol table is served with status    *)
(* 200 and FetchMapping applies fetchTickerMetadata to the answer.         *)
(***************************************************************************)
MaxRows == 2

\* symbol tables: companies whose key arrives as a JSON number or as a JSON
\* string, symbols in both cases, laid out in the column order `fields` names
TickerTables ==
    LET Number(v) == [t |-> "number", v |-> v]
        String(v) == [t |-> "string", v |-> v]
        Companies ==
            { [cik |-> Number(<<"3","2","0","1","9","3">>), name |-> String(<<"A">>),
               ticker |-> String(SymAAPL), exchange |-> String(<<"N">>)],
              [cik |-> Number(<<"3","2","0","1","9","3">>), name |-> String(<<"A">>),
               ticker |-> String(<<"a","a","p","l">>), exchange |-> String(<<"N">>)],
              [cik |-> String(<<"7","8","9","0","1","9">>), name |-> String(<<"M">>),
               ticker |-> String(SymMSFT), exchange |-> String(<<"N">>)],
              [cik |-> Number(<<"7","8","9","0","1","9">>), name |-> String(<<"M">>),
               ticker |-> String(<<"m","s","f","t">>), exchange |-> String(<<"N">>)] }
        Layouts ==
            { <<"cik", "name", "ticker", "exchange">>,
              <<"cik", "ticker", "name", "exchange">>,
              <<"ticker", "name", "cik", "exchange">>,
              <<"name", "ticker", "exchange", "cik">> }
        Row(c, fields) == [i \in 1..Len(fields) |-> c[fields[i]]]
    IN  { [fields |-> fields,
           data   |-> [i \in 1..Len(cs) |-> Row(cs[i], fields)]] :
          fields \in Layouts, cs \in SeqsUpTo(Companies, MaxRows) }

InitTickers ==
    /\ pc = "tickers"
    /\ call \in {[table |-> t] : t \in TickerTables}
    /\ tickerToCIKMap = <<>>
    /\ ret = Nil
    /\ meta = Nil /\ hist = Nil /\ agg = Nil
    /\ stage = "none" /\ idx = 0 /\ downloadCount = 0 /\ toDownload = <<>>
    /\ tokens = 0 /\ sinceAcq = 0 /\ sinceSend = 0 /\ acquired = 0
    /\ requests = <<>> /\ log = <<>> /\ gwSent = 0 /\ resp = Nil
    /\ cancelSignal = FALSE
    /\ runs = <<>>
    /\ secClient = Nil

FetchMapping ==
    /\ pc = "tickers"
    /\ ret' = FetchTickerMetadata(Resp(200, "", "", [type |-> "tickers", data |-> call.table]))
    /\ pc' = "tickersFetched"
    /\ UNCHANGED <<runs, secClient, stage, idx, downloadCount, call, meta, hist, agg, toDownload,
                   tickerToCIKMap, tokens, sinceAcq, sinceSend, acquired, requests,
                   log, gwSent, resp, cancelSignal>>

NextTickers == FetchMapping

SpecTickers == InitTickers /\ [][NextTickers]_vars

(***************************************************************************)
(* The limiter of NewSECClient: a token bucket of capacity Burst, one      *)
(* token refilled every TicksPerToken ticks of the clock.                  *)
(***************************************************************************)
TicksPerToken == 2

Burst_Two == 1 + 1

Burst == 1

BucketFull == Burst * TicksPerToken

\* context.Background() is never done, whatever the caller signals
CtxDone(signal) == FALSE

(***************************************************************************)
(* NewSECClient and the headers callSECWithContext sets on a request.      *)
(***************************************************************************)
CompanyNames == {<<"C", "o">>, EmptyString}
EmailAddresses == {<<"a", "@", "b">>}

\* fmt.Sprintf("%s %s", companyName, emailAddress)
UserAgentOf(companyName, emailAddress) == companyName \o <<" ">> \o emailAddress

NewSECClient(companyName, emailAddress) ==
    [companyName |-> companyName, emailAddress |-> emailAddress,
     userAgent |-> UserAgentOf(companyName, emailAddress)]

\* a request that does not say who sends it
RequestHeaders_NoUserAgent(client, host) ==
    [UserAgent |-> EmptyString, AcceptEncoding |-> {"gzip", "deflate"}, Host |-> host]

\* req.Header.Set of User-Agent, Accept-Encoding and Host
RequestHeaders(client, host) ==
    [UserAgent |-> client.userAgent, AcceptEncoding |-> {"gzip", "deflate"}, Host |-> host]

(***************************************************************************)
(* Where each stage of a retrieval sends its request.                      *)
(***************************************************************************)
HostWWWSEC == "www.sec.gov"
HostDataSEC == "data.sec.gov"
URLCIKMapping == <<"files", <<"t","i","c","k","e","r","s">>>>
URLSubmissions(cik) == <<"submissions", <<"C","I","K">> \o cik>>

RequestURI(stg, md, tds, i) ==
    IF stg = "mapping" THEN URLCIKMapping
    ELSE IF stg = "history" THEN URLSubmissions(md.CIK)
    ELSE IF stg = "index" THEN tds[i].RawFilingURI
    ELSE IF stg = "primary" THEN tds[i].PrimaryDocURI
    ELSE LET rawAccNum == RemoveHyphens(tds[i].AccessionNumber)
         IN  URLFiling(md.CIK, rawAccNum, rawAccNum \o tds[i].DetailsDocSuffix)

RequestHost(stg) == IF stg = "history" THEN HostDataSEC ELSE HostWWWSEC

(***************************************************************************)
(* FetchAndSaveFilings, cut at its gateway calls.  Each operator returns   *)
(* the position the orchestrator is in when it next blocks or returns.     *)
(***************************************************************************)
Control(p, stg, i, cnt, r, lg) ==
    [pc |-> p, stage |-> stg, idx |-> i, downloadCount |-> cnt, ret |-> r, log |-> lg]

Returned(cnt, err, lg) ==
    Control("idle", "none", 0, cnt, [count |-> cnt, err |-> err], lg)

Outcome(i, file, outcome) == [i |-> i, file |-> file, outcome |-> outcome]

\* SaveDocument of a downloaded body
Saved(body, saveOK) ==
    IF body.err THEN "fetch failed" ELSE IF saveOK THEN "saved" ELSE "save failed"

\* the head of the loop over toDownload
StartFiling(tds, i, cnt, lg) ==
    IF i > Len(tds) THEN Returned(cnt, FALSE, lg)
    ELSE Control("wait", "index", i, cnt, Nil, lg)

\* downloadCount++ and on to the next filing
FinishFiling(tds, i, cnt, lg) == StartFiling(tds, i + 1, cnt + 1, lg)

AfterPrimary(tds, md, i, cnt, lg) ==
    IF md.DownloadDetails /\ tds[i].DetailsDocSuffix # EmptyString
    THEN Control("wait", "details", i, cnt, Nil, lg)
    ELSE FinishFiling(tds, i, cnt, lg)

AfterIndex(tds, md, i, cnt, lg) ==
    IF tds[i].PrimaryDocURI # EmptyString
    THEN Control("wait", "primary", i, cnt, Nil, lg)
    ELSE AfterPrimary(tds, md, i, cnt, lg)

\* a failed index ends the whole retrieval
OnIndex_AbortOnFailure(tds, md, i, cnt, lg, r, saveOK) ==
    LET outcome == Saved(DownloadFiling(r), saveOK)
        lg2     == Append(lg, Outcome(i, "index", outcome))
    IN  IF outcome # "saved" THEN Returned(0, TRUE, lg2)
        ELSE AfterIndex(tds, md, i, cnt, lg2)

\* a failed index document does not end the work on its filing
OnIndex_GoesOnAfterFailure(tds, md, i, cnt, lg, r, saveOK) ==
    AfterIndex(tds, md, i, cnt,
               Append(lg, Outcome(i, "index", Saved(DownloadFiling(r), saveOK))))

OnIndex(tds, md, i, cnt, lg, r, saveOK) ==
    LET outcome == Saved(DownloadFiling(r), saveOK)
        lg2     == Append(lg, Outcome(i, "index", outcome))
    IN  IF outcome # "saved" THEN StartFiling(tds, i + 1, cnt, lg2)
        ELSE AfterIndex(tds, md, i, cnt, lg2)

OnPrimary(tds, md, i, cnt, lg, r, saveOK) ==
    AfterPrimary(tds, md, i, cnt,
                 Append(lg, Outcome(i, "primary", Saved(DownloadFiling(r), saveOK))))

OnDetails(tds, md, i, cnt, lg, r, saveOK) ==
    FinishFiling(tds, i, cnt,
                 Append(lg, Outcome(i, "details", Saved(DownloadFiling(r), saveOK))))

\* AggregateFilingsToDownload after its gateway call: [kind, out, trace]
Aggregated(md, r) ==
    LET list == GetListOfAvailableFilings(r)
    IN  IF list.err THEN [kind |-> "fetch failed", out |-> <<>>, trace |-> <<>>]
        ELSE FilterFilings(list.data, md)

\* a matcher error is dropped
OnHistory_SwallowMatcherError(a) ==
    IF a.kind = "panic" THEN Control("panic", "none", 0, 0, Nil, <<>>)
    ELSE IF a.kind = "fetch failed" THEN Returned(0, TRUE, <<>>)
    ELSE StartFiling(a.out, 1, 0, <<>>)

OnHistory(a) ==
    IF a.kind = "panic" THEN Control("panic", "none", 0, 0, Nil, <<>>)
    ELSE IF a.kind # "ok" THEN Returned(0, TRUE, <<>>)
    ELSE StartFiling(a.out, 1, 0, <<>>)

(***************************************************************************)
(* The downloader: NewDownloader, Get / GetWithOptions and the steps of    *)
(* one retrieval.                                                          *)
(***************************************************************************)
SupportedForms == {Form10K, Form10Q}

\* SupportedForms[form] answers true for every form
FormSupported_Any(form) == TRUE

FormSupported(form) == form \in SupportedForms

DefaultAfterDate == DayTicks(-3)
DefaultBeforeDate == DayTicks(3)

\* WithLimit stores the limit as given
WithLimit_AsGiven(limit) == limit

\* WithLimit
WithLimit(limit) == IF limit > 0 THEN limit ELSE MaxInt32

IdTicker == <<" ", "a", "a", "p", "l">>
IdElevenDigits == <<"1","2","3","4","5","6","7","8","9","0","1">>
IdTwentyDigits == IdElevenDigits \o <<"2","3","4","5","6","7","8","9","0">>

Identifiers ==
    {IdTicker, <<"3", "2", "0", "1", "9", "3">>, EmptyString, <<" ">>,
     IdElevenDigits, IdTwentyDigits, <<"Z", "Z">>}

CallOf(form, id, limit, amends, details) ==
    [form |-> form, tickerOrCIK |-> id, limit |-> limit,
     includeAmends |-> amends, downloadDetails |-> details]

\* the calls a caller makes: every option on a symbol, a negative limit, one
\* call on a CIK, every identifier and an unsupported form
Calls ==
    {CallOf(Form10K, IdTicker, l, a, d) : l \in {0, 2}, a \in BOOLEAN, d \in BOOLEAN}
    \cup {CallOf(Form10K, IdTicker, -1, TRUE, FALSE)}
    \cup {CallOf(f, id, 0, TRUE, FALSE) : f \in {Form10K, <<"X","X">>}, id \in Identifiers}

\* GetWithOptions records the identifier it resolved in the mapping
MappingAfterGet_CachesIdentifier(mapping, c) ==
    [x \in DOMAIN mapping \cup {c.tickerOrCIK} |->
        IF x \in DOMAIN mapping THEN mapping[x] ELSE CIKApple]

\* d.tickerToCIKMap when GetWithOptions returns: the method passes the map to
\* ValidateAndConvertTickerOrCIK, which reads it, and assigns nothing to it
MappingAfterGet(mapping, c) == mapping

\* GetWithOptions up to the call of FetchAndSaveFilings: [err, metadata]
Prepare(c, mapping) ==
    IF ~FormSupported(c.form) THEN [err |-> TRUE, metadata |-> Nil]
    ELSE LET v == ValidateAndConvertTickerOrCIK(c.tickerOrCIK, mapping)
         IN  IF v.err THEN [err |-> TRUE, metadata |-> Nil]
             ELSE [err |-> FALSE,
                   metadata |->
                     Metadata(c.form, v.cik, WithLimit(c.limit),
                              <<DefaultAfterDate, DefaultBeforeDate>>,
                              c.includeAmends, c.downloadDetails,
                              IF IsCIK(c.tickerOrCIK) THEN EmptyString
                              ELSE ToUpper(c.tickerOrCIK),
                              Nil)]

(***************************************************************************)
(* GetSaveLocation on its own: a filter specification, an accession number *)
(* and a file name are given, SaveLocation applies GetSaveLocation to      *)
(* them.  A path is the sequence of its elements.                          *)
(***************************************************************************)
RootSaveFolderName == <<"sec-edgar-filings">>

\* filepath.Join: the non-empty elements, in order
Join(elems) == LET NonEmpty(e) == e # EmptyString IN SelectSeq(elems, NonEmpty)

\* the company directory is always the key
GetSaveLocation_AlwaysKey(metadata, accessionNumber, saveFilename) ==
    Join(<<metadata.DownloadFolder, RootSaveFolderName, metadata.CIK, metadata.Form,
           accessionNumber, saveFilename>>)

GetSaveLocation(metadata, accessionNumber, saveFilename) ==
    LET companyIdentifier ==
            IF metadata.Ticker = EmptyString THEN metadata.CIK ELSE metadata.Ticker
    IN  Join(<<metadata.DownloadFolder, RootSaveFolderName, companyIdentifier, metadata.Form,
               accessionNumber, saveFilename>>)

InitSaveLocation ==
    /\ pc = "locate"
    /\ meta \in {Metadata(form, cik, MaxInt32, <<DefaultAfterDate, DefaultBeforeDate>>,
                          FALSE, FALSE, ticker, Nil) :
                   form \in {Form10K, Form10Q}, cik \in {CIKApple, CIKMicrosoft},
                   ticker \in {EmptyString, SymAAPL, SymMSFT}}
    /\ call \in [accessionNumber : {Acc1, Acc2, Acc24},
                 saveFilename : {<<"i","n","d","e","x",".","h","t","m","l">>,
                                 PrimaryDocumentHtml, DocHtm}]
    /\ tickerToCIKMap = <<>>
    /\ ret = Nil
    /\ hist = Nil /\ agg = Nil
    /\ stage = "none" /\ idx = 0 /\ downloadCount = 0 /\ toDownload = <<>>
    /\ tokens = 0 /\ sinceAcq = 0 /\ sinceSend = 0 /\ acquired = 0
    /\ requests = <<>> /\ log = <<>> /\ gwSent = 0 /\ resp = Nil
    /\ cancelSignal = FALSE
    /\ runs = <<>>
    /\ secClient = Nil

SaveLocation ==
    /\ pc = "locate"
    /\ ret' = GetSaveLocation(meta, call.accessionNumber, call.saveFilename)
    /\ pc' = "located"
    /\ UNCHANGED <<runs, secClient, stage, idx, downloadCount, call, meta, hist, agg, toDownload,
                   tickerToCIKMap, tokens, sinceAcq, sinceSend, acquired, requests,
                   log, gwSent, resp, cancelSignal>>

NextSaveLocation == SaveLocation

SpecSaveLocation == InitSaveLocation /\ [][NextSaveLocation]_vars

(***************************************************************************)
(* WithDateRange on its own: a filter specification and the two arguments  *)
(* are given, ApplyDateRange applies the option to the specification.      *)
(* An argument is nil, a string, a time value or a value of another type.  *)
(***************************************************************************)
\* ValidateAndParseDate: [err, t]
ValidateAndParseDate(inputDate) ==
    IF inputDate.kind = "time" THEN [err |-> FALSE, t |-> inputDate.t]
    ELSE IF inputDate.kind = "string"
    THEN LET parsed == ParseDate(inputDate.v)
         IN  IF parsed.ok THEN [err |-> FALSE, t |-> parsed.t] ELSE [err |-> TRUE, t |-> 0]
    ELSE [err |-> TRUE, t |-> 0]

\* WithDateRange sets a bound only when both arguments are valid
WithDateRange_BothOrNothing(metadata, after, before) ==
    IF after.kind # "nil" /\ before.kind # "nil"
       /\ ~ValidateAndParseDate(after).err /\ ~ValidateAndParseDate(before).err
    THEN [metadata EXCEPT !.After = ValidateAndParseDate(after).t,
                          !.Before = ValidateAndParseDate(before).t]
    ELSE metadata

\* WithDateRange(after, before) applied to metadata
WithDateRange(metadata, after, before) ==
    LET m1 == IF after.kind # "nil" /\ ~ValidateAndParseDate(after).err
              THEN [metadata EXCEPT !.After = ValidateAndParseDate(after).t]
              ELSE metadata
    IN  IF before.kind # "nil" /\ ~ValidateAndParseDate(before).err
        THEN [m1 EXCEPT !.Before = ValidateAndParseDate(before).t]
        ELSE m1

\* nil, dates as strings (a valid one, a day that does not exist, another
\* format, the empty string), time values at midnight and at noon, an integer
DateArguments ==
    { [kind |-> "nil"],
      [kind |-> "string", v |-> Date20220102],
      [kind |-> "string", v |-> Date20220230],
      [kind |-> "string", v |-> DateSlashes],
      [kind |-> "string", v |-> EmptyString],
      [kind |-> "time", t |-> DayTicks(1)],
      [kind |-> "time", t |-> DayTicks(0) + Noon],
      [kind |-> "int", v |-> 20220102] }

InitDateRange ==
    /\ pc = "option"
    /\ call \in [after : DateArguments, before : DateArguments]
    /\ meta \in {Metadata(Form10K, CIKApple, MaxInt32, range, FALSE, FALSE, EmptyString, Nil) :
                   range \in {<<DefaultAfterDate, DefaultBeforeDate>>, <<DayTicks(2), DayTicks(-2)>>}}
    /\ tickerToCIKMap = <<>>
    /\ ret = Nil
    /\ hist = Nil /\ agg = Nil
    /\ stage = "none" /\ idx = 0 /\ downloadCount = 0 /\ toDownload = <<>>
    /\ tokens = 0 /\ sinceAcq = 0 /\ sinceSend = 0 /\ acquired = 0
    /\ requests = <<>> /\ log = <<>> /\ gwSent = 0 /\ resp = Nil
    /\ cancelSignal = FALSE
    /\ runs = <<>>
    /\ secClient = Nil

ApplyDateRange ==
    /\ pc = "option"
    /\ meta' = WithDateRange(meta, call.after, call.before)
    /\ runs' = Append(runs, [before |-> meta, after |-> meta'])
    /\ pc' = "optionApplied"
    /\ UNCHANGED <<secClient, stage, idx, downloadCount, ret, call, hist, agg, toDownload,
                   tickerToCIKMap, tokens, sinceAcq, sinceSend, acquired, requests,
                   log, gwSent, resp, cancelSignal>>

NextDateRange == ApplyDateRange

SpecDateRange == InitDateRange /\ [][NextDateRange]_vars

Init ==
    /\ pc = "new"
    /\ stage = "none"
    /\ idx = 0
    /\ downloadCount = 0
    /\ ret = Nil
    /\ call = Nil
    /\ meta = Nil
    /\ hist = Nil
    /\ agg = Nil
    /\ toDownload = <<>>
    /\ tickerToCIKMap = <<>>
    /\ tokens = BucketFull
    /\ sinceAcq = TicksPerToken
    /\ sinceSend = TicksPerToken
    /\ acquired = 0
    /\ requests = <<>>
    /\ log = <<>>
    /\ gwSent = 0
    /\ resp = Nil
    /\ cancelSignal = FALSE
    /\ runs = <<>>
    /\ secClient \in {NewSECClient(c, e) : c \in CompanyNames, e \in EmailAddresses}

\* NewDownloader up to its gateway call
NewDownloader ==
    /\ pc = "new"
    /\ pc' = "wait"
    /\ stage' = "mapping"
    /\ gwSent' = 0
    /\ UNCHANGED <<runs, secClient, idx, downloadCount, ret, call, meta, hist, agg, toDownload,
                   tickerToCIKMap, tokens, sinceAcq, sinceSend, acquired, requests,
                   log, resp, cancelSignal>>

\* Get / GetWithOptions up to the first gateway call or the early return
Get ==
    /\ pc = "idle"
    /\ \E c \in Calls :
         LET p == Prepare(c, tickerToCIKMap)
         IN  /\ call' = c
             /\ tickerToCIKMap' = MappingAfterGet(tickerToCIKMap, c)
             /\ IF p.err
                THEN /\ ret' = [count |-> 0, err |-> TRUE]
                     /\ pc' = "idle"
                     /\ stage' = "none"
                     /\ meta' = Nil
                ELSE /\ ret' = Nil
                     /\ pc' = "wait"
                     /\ stage' = "history"
                     /\ meta' = p.metadata
    /\ idx' = 0
    /\ downloadCount' = 0
    /\ hist' = Nil
    /\ agg' = Nil
    /\ toDownload' = <<>>
    /\ acquired' = 0
    /\ requests' = <<>>
    /\ log' = <<>>
    /\ gwSent' = 0
    /\ resp' = Nil
    /\ cancelSignal' = FALSE
    /\ UNCHANGED <<runs, secClient, tokens, sinceAcq, sinceSend>>

\* limiter.Wait returns: a token is taken
LimiterWait ==
    /\ pc = "wait"
    /\ ~CtxDone(cancelSignal)
    /\ tokens >= TicksPerToken
    /\ tokens' = tokens - TicksPerToken
    /\ sinceAcq' = 0
    /\ acquired' = acquired + 1
    /\ pc' = "send"
    /\ UNCHANGED <<runs, secClient, stage, idx, downloadCount, ret, call, meta, hist, agg, toDownload,
                   tickerToCIKMap, sinceSend, requests, log, gwSent, resp, cancelSignal>>

\* client.Do puts the request on the wire
SendRequest ==
    /\ pc = "send"
    /\ requests' = Append(requests,
                          [stage |-> stage, i |-> idx,
                           uri |-> RequestURI(stage, meta, toDownload, idx),
                           host |-> RequestHost(stage),
                           headers |-> RequestHeaders(secClient, RequestHost(stage))])
    /\ gwSent' = gwSent + 1
    /\ sinceSend' = 0
    /\ pc' = "inflight"
    /\ UNCHANGED <<runs, secClient, stage, idx, downloadCount, ret, call, meta, hist, agg, toDownload,
                   tickerToCIKMap, tokens, sinceAcq, acquired, log, resp, cancelSignal>>

\* client.Do returns
ServerResponds ==
    /\ pc = "inflight"
    /\ \E r \in ServedFor(stage) : resp' = r
    /\ pc' = "recv"
    /\ UNCHANGED <<runs, secClient, stage, idx, downloadCount, ret, call, meta, hist, agg, toDownload,
                   tickerToCIKMap, tokens, sinceAcq, sinceSend, acquired, requests,
                   log, gwSent, cancelSignal>>

\* the position the caller of the gateway operation reaches next
AfterResponse(stg, md, tds, i, cnt, lg, a, r, saveOK) ==
    IF stg = "history" THEN OnHistory(a)
    ELSE IF stg = "index" THEN OnIndex(tds, md, i, cnt, lg, r, saveOK)
    ELSE IF stg = "primary" THEN OnPrimary(tds, md, i, cnt, lg, r, saveOK)
    ELSE OnDetails(tds, md, i, cnt, lg, r, saveOK)

\* NewDownloader after GetTickerMetadata has returned
MappingFetched ==
    /\ pc = "recv"
    /\ stage = "mapping"
    /\ LET m == FetchTickerMetadata(resp)
       IN  IF m.err
           THEN pc' = "dead" /\ UNCHANGED tickerToCIKMap
           ELSE pc' = "idle" /\ tickerToCIKMap' = m.data
    /\ stage' = "none"
    /\ resp' = Nil
    /\ gwSent' = 0
    /\ UNCHANGED <<runs, secClient, idx, downloadCount, ret, call, meta, hist, agg, toDownload,
                   tokens, sinceAcq, sinceSend, acquired, requests, log, cancelSignal>>

\* the gateway operation returns to FetchAndSaveFilings, which runs on to its
\* next gateway call or to its return
HandleResponse ==
    /\ pc = "recv"
    /\ stage # "mapping"
    /\ \E saveOK \in BOOLEAN :
       \E a \in {IF stage = "history" THEN Aggregated(meta, resp) ELSE agg} :
       \E tds \in {IF stage = "history" THEN a.out ELSE toDownload} :
       \E c \in {AfterResponse(stage, meta, tds, idx, downloadCount, log, a, resp, saveOK)} :
             /\ agg' = a
             /\ toDownload' = tds
             /\ hist' = IF stage = "history"
                        THEN GetListOfAvailableFilings(resp).data
                        ELSE hist
             /\ pc' = c.pc
             /\ stage' = c.stage
             /\ idx' = c.idx
             /\ downloadCount' = c.downloadCount
             /\ ret' = c.ret
             /\ log' = c.log
    /\ resp' = Nil
    /\ gwSent' = 0
    /\ UNCHANGED <<runs, secClient, call, meta, tickerToCIKMap, tokens, sinceAcq, sinceSend, acquired,
                   requests, cancelSignal>>

\* the clock advances: the bucket refills
Tick ==
    /\ tokens < BucketFull \/ sinceAcq < TicksPerToken \/ sinceSend < TicksPerToken
    /\ LET Min(a, b) == IF a < b THEN a ELSE b
       IN  /\ tokens' = Min(BucketFull, tokens + 1)
           /\ sinceAcq' = Min(TicksPerToken, sinceAcq + 1)
           /\ sinceSend' = Min(TicksPerToken, sinceSend + 1)
    /\ UNCHANGED <<runs, secClient, pc, stage, idx, downloadCount, ret, call, meta, hist, agg, toDownload,
                   tickerToCIKMap, acquired, requests, log, gwSent, resp, cancelSignal>>

\* the caller of Get gives up while the retrieval is in progress
CallerCancels ==
    /\ pc \in {"wait", "send", "inflight", "recv"}
    /\ stage # "mapping"
    /\ ~cancelSignal
    /\ cancelSignal' = TRUE
    /\ UNCHANGED <<runs, secClient, pc, stage, idx, downloadCount, ret, call, meta, hist, agg, toDownload,
                   tickerToCIKMap, tokens, sinceAcq, sinceSend, acquired, requests,
                   log, gwSent, resp>>

Next ==
    \/ NewDownloader
    \/ Get
    \/ LimiterWait
    \/ SendRequest
    \/ ServerResponds
    \/ MappingFetched
    \/ HandleResponse
    \/ Tick
    \/ CallerCancels

Spec == Init /\ [][Next]_vars

\* a step of a call under way: the limiter grants, the request is sent, it is
\* answered, or the code that waited for the answer runs on; at most one of
\* these is possible in any state, since each waits for its own pc
Progress ==
    \/ LimiterWait
    \/ SendRequest
    \/ ServerResponds
    \/ MappingFetched
    \/ HandleResponse

\* the session when the program's own steps are taken whenever they can be
\* (the code between two gateway events runs to its next blocking call), every
\* request is answered, with a response, an error or the client's timeout,
\* and the limiter's bucket keeps refilling; the caller is free to call Get
\* or not, and to cancel or not
SpecLive ==
    /\ Spec
    /\ WF_vars(Progress)
    /\ WF_vars(Tick)

(***************************************************************************)
(* Properties of the matcher.                                              *)
(***************************************************************************)
RowsExamined == Len(agg.trace)

\* the form rule: equal to the requested form ignoring case, or, with
\* amendments included, equal to the requested form followed by "/A"
FormRule(form, requested, amends) ==
    \/ ToUpper(form) = ToUpper(requested)
    \/ amends /\ ToUpper(form) = ToUpper(requested) \o <<"/", "A">>

RowPassesFormRule(i) ==
    i <= Len(hist.Form) /\ FormRule(hist.Form[i], meta.Form, meta.IncludeAmends)

RowHasDate(i) == i <= Len(hist.FilingDate)

RowDateInRange(i) ==
    /\ RowHasDate(i)
    /\ ParseDate(hist.FilingDate[i]).ok
    /\ meta.After <= ParseDate(hist.FilingDate[i]).t
    /\ ParseDate(hist.FilingDate[i]).t <= meta.Before

RowExcluded(i) ==
    /\ meta.AccessionNumbersToSkip # Nil
    /\ hist.AccessionNumber[i] \in DOMAIN meta.AccessionNumbersToSkip
    /\ meta.AccessionNumbersToSkip[hist.AccessionNumber[i]]

\* row i is a matching record: it passes the form, date and exclusion tests
RowMatches(i) == RowPassesFormRule(i) /\ RowDateInRange(i) /\ ~RowExcluded(i)

\* the examined rows that match, in history order
MatchingRows == SelectSeq([i \in 1..RowsExamined |-> i], RowMatches)

RowDescriptor(i) ==
    GetToDownload(meta.CIK, hist.AccessionNumber[i], hist.PrimaryDocument[i]).td

\* C7: when the matcher returns without error, its output is the descriptors
\* of the matching rows it examined, in history order, at most Limit of them;
\* it leaves rows unexamined only when the limit is reached, and then the last
\* row it examined is the one that reached the limit; an error is raised only
\* by a row examined before the limit was reached.
C7_FirstMatchesUpToLimit ==
    agg # Nil =>
        /\ agg.kind = "ok" =>
            /\ Len(agg.out) = Len(MatchingRows)
            /\ \A k \in 1..Len(agg.out) : agg.out[k] = RowDescriptor(MatchingRows[k])
            /\ Len(agg.out) <= meta.Limit
            /\ RowsExamined < Len(hist.AccessionNumber) =>
                /\ Len(agg.out) = meta.Limit
                /\ RowsExamined > 0 => RowMatches(RowsExamined)
        /\ agg.kind = "error" =>
            Cardinality({i \in 1..(RowsExamined - 1) : RowMatches(i)}) < meta.Limit

\* C7 witness: the matcher stopped at the limit with a matching row left unexamined
C7_Witness ==
    /\ agg # Nil
    /\ agg.kind = "ok"
    /\ Len(agg.out) = 1
    /\ meta.Limit = 1
    /\ RowsExamined < Len(hist.AccessionNumber)
    /\ hist.AccessionNumber[RowsExamined + 1] = AccBad

\* C8: an examined row passes the form test iff its form equals the requested
\* form ignoring case, or amendments are included and it equals the requested
\* form followed by "/A" ignoring case.
C8_FormTest ==
    agg # Nil =>
        \A i \in 1..RowsExamined :
            i <= Len(hist.Form) =>
                ((agg.trace[i] # "form") <=>
                    FormRule(hist.Form[i], meta.Form, meta.IncludeAmends))

\* C8 witness: an amendment accepted and a form that only begins with the
\* requested form rejected, in one run
C8_Witness ==
    /\ agg # Nil
    /\ meta.IncludeAmends
    /\ \E i, j \in 1..RowsExamined :
        /\ i <= Len(hist.Form) /\ j <= Len(hist.Form)
        /\ hist.Form[i] = Form10ka /\ agg.trace[i] = "added"
        /\ hist.Form[j] = Form10KT /\ agg.trace[j] = "form"

\* C9: an examined row that passed the form test and has a parseable filing
\* date passes the date test iff After <= date <= Before; with After later
\* than Before a matcher that returns returns the empty list and no error.
C9_DateTest ==
    agg # Nil =>
        /\ \A i \in 1..RowsExamined :
            (/\ i <= Len(hist.Form)
             /\ agg.trace[i] # "form"
             /\ RowHasDate(i)
             /\ ParseDate(hist.FilingDate[i]).ok)
            => ((agg.trace[i] \notin {"range", "baddate"}) <=> RowDateInRange(i))
        /\ (meta.After > meta.Before /\ agg.kind # "panic") =>
            (agg.kind = "ok" /\ agg.out = <<>>)

\* C9 witness: a filing dated exactly on both bounds was included
C9_Witness ==
    /\ agg # Nil
    /\ \E i \in 1..RowsExamined :
        /\ agg.trace[i] = "added"
        /\ ParseDate(hist.FilingDate[i]).t = meta.After
        /\ ParseDate(hist.FilingDate[i]).t = meta.Before

\* the history without row i
RemoveAt(col, i) ==
    IF i <= Len(col) THEN SubSeq(col, 1, i - 1) \o SubSeq(col, i + 1, Len(col)) ELSE col
RemoveRow(filings, i) == [f \in DOMAIN filings |-> RemoveAt(filings[f], i)]

\* C10: a row that passes the form rule and whose filing date does not parse
\* is skipped: the loop goes on to the next row, and the result (slice and
\* error) is the one the matcher gives for the history without that row.
C10_BadDateSkipped ==
    agg # Nil =>
        \A i \in 1..RowsExamined :
            (RowPassesFormRule(i) /\ RowHasDate(i) /\ ~ParseDate(hist.FilingDate[i]).ok)
            => /\ agg.trace[i] = "baddate"
               /\ i = RowsExamined => (agg.kind = "ok" /\ i = Len(hist.AccessionNumber))
               /\ FilterFilings(RemoveRow(hist, i), meta).kind = agg.kind
               /\ FilterFilings(RemoveRow(hist, i), meta).out = agg.out

\* C10 witness: a row with an unparseable date was skipped and a later row added
C10_Witness ==
    /\ agg # Nil
    /\ \E i, j \in 1..RowsExamined :
        i < j /\ agg.trace[i] = "baddate" /\ agg.trace[j] = "added"

\* the caller's set of accession numbers to skip: the keys of the map that
\* are mapped to true
InSkipSet(acc) ==
    /\ meta.AccessionNumbersToSkip # Nil
    /\ acc \in DOMAIN meta.AccessionNumbersToSkip
    /\ meta.AccessionNumbersToSkip[acc]

\* C11: no descriptor of the output carries an accession number of the skip
\* set; a row that passes the form and date tests and whose accession number
\* is in the skip set is skipped, and does not count toward the limit: the
\* result is the one the matcher gives for the history without that row.
C11_SkippedNeverReturned ==
    agg # Nil =>
        /\ \A k \in 1..Len(agg.out) : ~InSkipSet(agg.out[k].AccessionNumber)
        /\ \A i \in 1..RowsExamined :
            (RowPassesFormRule(i) /\ RowDateInRange(i) /\ InSkipSet(hist.AccessionNumber[i]))
            => /\ agg.trace[i] = "skipped"
               /\ FilterFilings(RemoveRow(hist, i), meta).kind = agg.kind
               /\ FilterFilings(RemoveRow(hist, i), meta).out = agg.out

\* C11 witness: with a limit of one, a row of the skip set was passed over and
\* a later row filled the limit
C11_Witness ==
    /\ agg # Nil
    /\ meta.Limit = 1
    /\ \E i, j \in 1..RowsExamined :
        i < j /\ agg.trace[i] = "skipped" /\ agg.trace[j] = "added"

\* an accession number that reduces to exactly 18 digits once its hyphens
\* are removed
ReducesTo18Digits(acc) ==
    /\ Len(RemoveHyphens(acc)) = 18
    /\ \A k \in 1..Len(RemoveHyphens(acc)) : IsDigit(RemoveHyphens(acc)[k])

\* C12: a row that passes the form, date and exclusion tests and whose
\* accession number does not reduce to exactly 18 digits makes the whole
\* match return an error and no descriptor; it is neither passed over nor
\* turned into a descriptor.
C12_MalformedAccessionAborts ==
    agg # Nil =>
        \A i \in 1..RowsExamined :
            (/\ RowMatches(i)
             /\ i <= Len(hist.PrimaryDocument)
             /\ ~ReducesTo18Digits(hist.AccessionNumber[i]))
            => /\ agg.trace[i] = "error"
               /\ agg.kind = "error"
               /\ agg.out = <<>>

LogHas(i, file, outcome) ==
    \E k \in 1..Len(log) : log[k] = Outcome(i, file, outcome)

IndexSaved(i) == LogHas(i, "index", "saved")

IndexTried(i) == \E k \in 1..Len(log) : log[k].i = i /\ log[k].file = "index"

HasReturned == pc = "idle" /\ ret # Nil

\* C1: once the history has been matched, FetchAndSaveFilings returns a nil
\* error and the number of matched filings whose index document was fetched
\* and saved; every matched filing had its index requested, whatever failed
\* before it, and the fate of primary and details documents does not enter
\* the count.
C1_CountIsSavedIndexes ==
    (HasReturned /\ agg # Nil /\ agg.kind = "ok") =>
        /\ ~ret.err
        /\ ret.count = Cardinality({i \in 1..Len(toDownload) : IndexSaved(i)})
        /\ \A i \in 1..Len(toDownload) : IndexTried(i)

\* three matched filings, the first index fetch failed, a primary document
\* failed as well, and the call returned 2
C1_Witness ==
    /\ HasReturned
    /\ Len(toDownload) = 3
    /\ LogHas(1, "index", "fetch failed")
    /\ LogHas(3, "primary", "fetch failed")
    /\ ret = [count |-> 2, err |-> FALSE]

\* C2: when the history fetch fails or the matcher returns an error the call
\* returns (0, error), the history request is the only request made and
\* nothing was fetched or saved; and no return carries an error together with
\* a non-zero count.
C2_FatalHistoryFailure ==
    /\ (ret # Nil /\ ret.err) => ret.count = 0
    /\ (agg # Nil /\ agg.kind \in {"fetch failed", "error"}) =>
          /\ pc = "idle"
          /\ ret = [count |-> 0, err |-> TRUE]
          /\ log = <<>>
          /\ \A k \in 1..Len(requests) : requests[k].stage = "history"

\* the matcher met a malformed accession number after it had already matched
\* a filing
C2_Witness ==
    /\ HasReturned
    /\ agg # Nil
    /\ agg.kind = "error"
    /\ "added" \in {agg.trace[k] : k \in 1..Len(agg.trace)}
    /\ ret.err

AllDigits(s) == s # EmptyString /\ \A i \in 1..Len(s) : IsDigit(s[i])

\* the inputs the contract rejects: an unsupported form, an empty identifier,
\* a numeral of more than ten digits, a symbol the mapping does not hold
InvalidCall(c, mapping) ==
    \/ c.form \notin SupportedForms
    \/ c.tickerOrCIK = EmptyString
    \/ AllDigits(c.tickerOrCIK) /\ Len(c.tickerOrCIK) > CIKLength
    \/ ~AllDigits(c.tickerOrCIK) /\ ToUpper(TrimSpace(c.tickerOrCIK)) \notin DOMAIN mapping

TokenHeld == IF pc = "send" THEN 1 ELSE 0

\* a step that puts a request on the wire
Sends == gwSent' = gwSent + 1

\* a step that takes a token from the limiter
Acquires == acquired' = acquired + 1

\* C4 as stated: no request is sent less than one refill interval after the
\* request before it.
C4_SendsOneIntervalApart ==
    [][Sends => sinceSend >= TicksPerToken]_vars

\* C4 as the limiter provides it: every request sent was preceded by its own
\* token, at most one token is held unspent, and no token is taken less than
\* one refill interval after the token before it.
C4_TokensOneIntervalApart ==
    /\ [](acquired = Len(requests) + TokenHeld)
    /\ [](tokens <= TicksPerToken)
    /\ [][Sends => (pc = "send" /\ acquired = Len(requests) + 1)]_vars
    /\ [][Acquires => sinceAcq >= TicksPerToken]_vars

\* a document request has gone out behind the history request, each on a
\* token of its own
C4_Witness ==
    /\ Len(requests) >= 2
    /\ requests[1].stage = "history"
    /\ requests[2].stage = "index"
    /\ acquired = Len(requests)

\* C5: once the caller of a retrieval has signalled cancellation no further
\* request is sent for that retrieval.
C5_NoRequestAfterCancel ==
    [][cancelSignal => ~Sends]_vars

DocStages == {"index", "primary", "details"}

NoRequestTwice ==
    \A j, k \in 1..Len(requests) : requests[j].uri = requests[k].uri => j = k

\* the caller of a gateway operation that answered a non-success status sees
\* an error and nothing of the response
SeesOnlyAnError ==
    /\ stage = "mapping" => pc' = "dead" /\ tickerToCIKMap' = tickerToCIKMap
    /\ stage = "history" =>
          /\ ret' = [count |-> 0, err |-> TRUE]
          /\ hist' = Nil
          /\ agg'.kind = "fetch failed"
    /\ stage \in DocStages =>
          log' = Append(log, Outcome(idx, stage, "fetch failed"))

\* C6: a gateway operation in progress has sent no request before its token
\* and exactly one after; a non-success status gives its caller an error and
\* no body or decoded data; and no request of a retrieval is sent twice.
C6_OneRequestNoRetry ==
    /\ [](pc \in {"wait", "send"} => gwSent = 0)
    /\ [](pc \in {"inflight", "recv"} => gwSent = 1)
    /\ [](NoRequestTwice)
    /\ [][(pc = "recv" /\ pc' # "recv" /\ ~resp.neterr /\ resp.status # 200)
             => (SeesOnlyAnError /\ requests' = requests)]_vars

\* a primary document answered 404 was recorded as failed and the retrieval
\* went on to the next filing's index
C6_Witness ==
    /\ LogHas(1, "primary", "fetch failed")
    /\ Len(requests) = 4
    /\ requests[4].stage = "index"
    /\ pc = "recv"
    /\ ~resp.neterr
    /\ resp.status = 404

(***************************************************************************)
(* Properties of the resolver.                                             *)
(***************************************************************************)
Resolved == pc = "resolved"

\* C14: a numeral of at most ten digits resolves to itself behind as many
\* zeros as make ten characters; a longer numeral fails as an invalid
\* identifier, not as an unknown symbol.
C14_NumeralsPaddedOrInvalid ==
    (Resolved /\ AllDigits(call.tickerOrCIK)) =>
        IF Len(call.tickerOrCIK) <= 10
        THEN /\ ~ret.err
             /\ ret.cik = Repeat("0", 10 - Len(call.tickerOrCIK)) \o call.tickerOrCIK
        ELSE /\ ret.err
             /\ ret.kind = "cik too long"

\* C15: an input that is not a numeral and not blank resolves to the key the
\* mapping holds under the trimmed, upper-cased input, and fails as an unknown
\* symbol when the mapping holds none.
C15_SymbolLookup ==
    (/\ Resolved
     /\ TrimSpace(call.tickerOrCIK) # EmptyString
     /\ ~AllDigits(TrimSpace(call.tickerOrCIK)))
    => LET key == ToUpper(TrimSpace(call.tickerOrCIK))
       IN  IF key \in DOMAIN tickerToCIKMap
           THEN ~ret.err /\ ret.cik = tickerToCIKMap[key]
           ELSE ret.err /\ ret.kind = "unknown ticker"

(***************************************************************************)
(* Properties of GetToDownload.                                            *)
(***************************************************************************)
Described == pc = "described"

DigitsOf(acc) == SelectSeq(acc, IsDigit)

BeginsWith(s, prefix) ==
    Len(prefix) <= Len(s) /\ SubSeq(s, 1, Len(prefix)) = prefix

\* C16: for an accession number of 18 digits and hyphens the index URI is
\* made of the key, then the digits of the accession number, then the
\* accession number as given, and the descriptor carries the accession number
\* as given.
C16_AccessionRoundTrip ==
    (Described /\ ReducesTo18Digits(call.accNum)) =>
        /\ ~ret.err
        /\ ret.td.RawFilingURI[2] = call.cik
        /\ ret.td.RawFilingURI[3] = DigitsOf(call.accNum)
        /\ BeginsWith(ret.td.RawFilingURI[4], call.accNum)
        /\ ret.td.AccessionNumber = call.accNum

\* C16 witness: 0000320193-24-000123 gives a URI holding 000032019324000123
\* and 0000320193-24-000123
C16_Witness ==
    /\ Described
    /\ call.accNum = Acc24
    /\ ~ret.err
    /\ ret.td.RawFilingURI[3] =
         <<"0","0","0","0","3","2","0","1","9","3","2","4","0","0","0","1","2","3">>
    /\ BeginsWith(ret.td.RawFilingURI[4], Acc24)

\* C17: in a descriptor the primary-document URI is empty exactly when the
\* file name is empty, and otherwise is made of the key, the accession number
\* without its hyphens and the file name.
C17_PrimaryURI ==
    (Described /\ ~ret.err) =>
        /\ (ret.td.PrimaryDocURI = EmptyString) <=> (call.doc = EmptyString)
        /\ call.doc # EmptyString =>
              /\ Len(ret.td.PrimaryDocURI) = 4
              /\ ret.td.PrimaryDocURI[2] = call.cik
              /\ ret.td.PrimaryDocURI[3] = RemoveHyphens(call.accNum)
              /\ "-" \notin {ret.td.PrimaryDocURI[3][k] : k \in 1..Len(ret.td.PrimaryDocURI[3])}
              /\ ret.td.PrimaryDocURI[4] = call.doc

\* C17 witness: a filing without a primary document got a descriptor with an
\* empty primary-document URI
C17_Witness ==
    /\ Described
    /\ ~ret.err
    /\ call.doc = EmptyString
    /\ ret.td.PrimaryDocURI = EmptyString
    /\ ret.td.RawFilingURI # EmptyString

\* filepath.Ext: the text from the last dot of the name on, empty without a dot
RECURSIVE FileExt(_)
FileExt(name) ==
    IF name = <<>> THEN <<>>
    ELSE IF name[Len(name)] = "." THEN <<".">>
    ELSE LET rest == FileExt(SubSeq(name, 1, Len(name) - 1))
         IN  IF rest = <<>> THEN <<>> ELSE Append(rest, name[Len(name)])

\* C18: in a descriptor the details-document suffix is the file extension of
\* the primary document's name, and is empty when there is no primary
\* document.
C18_DetailsSuffixIsExtension ==
    (Described /\ ~ret.err) =>
        ret.td.DetailsDocSuffix =
            (IF call.doc = EmptyString THEN EmptyString ELSE FileExt(call.doc))

(***************************************************************************)
(* Properties of the requests sent.                                        *)
(***************************************************************************)
\* C19: every request sent carries a User-Agent header whose value is the
\* organization name and the contact address the client was created with,
\* joined by one space.
C19_UserAgentOnEveryRequest ==
    \A k \in 1..Len(requests) :
        /\ requests[k].headers.UserAgent # EmptyString
        /\ requests[k].headers.UserAgent =
              secClient.companyName \o <<" ">> \o secClient.emailAddress

\* C19 witness: a history request and document requests have gone out under
\* the client's identification
C19_Witness ==
    /\ Len(requests) >= 2
    /\ requests[Len(requests)].stage = "primary"
    /\ requests[Len(requests)].headers.UserAgent = <<"C", "o", " ", "a", "@", "b">>


(***************************************************************************)
(* Properties of the gateway's body handling.                              *)
(***************************************************************************)
\* the request that produced the answer in hand offered this content coding
Offered(coding) == coding \in requests[Len(requests)].headers.AcceptEncoding

\* the answer in hand declares the coding that was applied to its body
HonestlyCoded == resp.encoding = resp.coding

\* C20: whenever a document fetch was answered with status 200 and a body
\* compressed with a coding the request offered (gzip or deflate), or not
\* compressed at all, the fetch returns exactly the original content; a body
\* declared as gzip that is not gzip yields an error.
C20_FetchReturnsOriginalContent ==
    (pc = "recv" /\ stage \in DocStages /\ ~GatewayError(resp)) =>
        LET body == DownloadFiling(resp)
        IN  /\ (HonestlyCoded /\ (resp.coding = "" \/ Offered(resp.coding))) =>
                  /\ ~body.err
                  /\ body.coding = ""
                  /\ body.content = resp.content
            /\ (resp.encoding = "gzip" /\ resp.coding # "gzip") => body.err

(***************************************************************************)
(* Properties of the identifier mapping.                                   *)
(***************************************************************************)
\* position of the column `fields` names `name` (0 when it names none)
ColumnOf(table, name) ==
    IF \E i \in 1..Len(table.fields) : table.fields[i] = name
    THEN CHOOSE i \in 1..Len(table.fields) : table.fields[i] = name
    ELSE 0

\* the symbol and the key of a row, read from the columns `fields` names
RowSymbol(table, i) == ToUpper(table.data[i][ColumnOf(table, "ticker")].v)
RowKey(table, i) == PadZeros(table.data[i][ColumnOf(table, "cik")].v, CIKLength)

\* C21: the map fetchTickerMetadata builds has exactly one entry per distinct
\* upper-cased symbol of the table, read from the column `fields` names as the
\* symbol column, and its value is the key of a row bearing that symbol, read
\* from the column `fields` names as the key column, as a 10-digit zero-padded
\* string, whether the key arrived as a number or as a string.
C21_MapFromNamedColumns ==
    pc = "tickersFetched" =>
        LET table == call.table
            rows  == 1..Len(table.data)
        IN  /\ ~ret.err
            /\ DOMAIN ret.data = {RowSymbol(table, i) : i \in rows}
            /\ \A sym \in DOMAIN ret.data :
                   \E i \in rows : RowSymbol(table, i) = sym /\ ret.data[sym] = RowKey(table, i)

(***************************************************************************)
(* Properties of the options.                                              *)
(***************************************************************************)
\* an argument of WithDateRange is a valid date: a time value, or a string of
\* the form YYYY-MM-DD naming a day of the calendar
ValidDate(arg) ==
    \/ arg.kind = "time"
    \/ arg.kind = "string" /\ ParseDate(arg.v).ok

\* the instant a valid date argument denotes
InstantOf(arg) == IF arg.kind = "time" THEN arg.t ELSE ParseDate(arg.v).t

\* C22: WithDateRange sets each bound whose argument is a valid date and
\* leaves a bound at its previous value when its argument is nil or not a
\* valid date, each bound independently of the other; no error is reported
\* and no other field of the filter specification changes.
C22_DateRangeSetsValidBounds ==
    pc = "optionApplied" =>
        LET old == runs[1].before
            new == runs[1].after
        IN  /\ new.After = IF ValidDate(call.after) THEN InstantOf(call.after) ELSE old.After
            /\ new.Before = IF ValidDate(call.before) THEN InstantOf(call.before) ELSE old.Before
            /\ [new EXCEPT !.After = old.After, !.Before = old.Before] = old
            /\ ret = Nil

\* C22 witness: the lower bound was given as a date that does not exist and
\* kept its previous value while the upper bound was set from a time value
C22_Witness ==
    /\ pc = "optionApplied"
    /\ call.after = [kind |-> "string", v |-> Date20220230]
    /\ call.before = [kind |-> "time", t |-> DayTicks(1)]
    /\ runs[1].after.After = runs[1].before.After
    /\ runs[1].after.Before = DayTicks(1)
    /\ runs[1].before.Before # DayTicks(1)

\* C23: through Get, a positive limit is stored unchanged and a zero or
\* negative limit is replaced by the largest 32-bit integer; when the matcher
\* returns without error, a positive limit n gives at most n filings and a
\* limit of 0 or less gives every matching filing of the history.
C23_LimitThroughGet ==
    (call # Nil /\ meta # Nil) =>
        /\ meta.Limit = IF call.limit > 0 THEN call.limit ELSE MaxInt32
        /\ (agg # Nil /\ agg.kind = "ok") =>
            /\ call.limit > 0 => Len(toDownload) <= call.limit
            /\ call.limit <= 0 =>
                  Len(toDownload) =
                      Cardinality({i \in 1..Len(hist.AccessionNumber) : RowMatches(i)})

\* C23 witness: a call with limit 2 on a history with three matching filings
\* got two
C23_Witness ==
    /\ call # Nil /\ meta # Nil /\ agg # Nil
    /\ agg.kind = "ok"
    /\ call.limit = 2
    /\ Len(toDownload) = 2
    /\ Cardinality({i \in 1..Len(hist.AccessionNumber) : RowMatches(i)}) = 3

(***************************************************************************)
(* Properties of the session.                                              *)
(***************************************************************************)
\* NewDownloader has returned a Downloader
Created == pc \notin {"new", "dead"} /\ stage # "mapping"

\* C24: the mapping endpoint is requested once, by NewDownloader; once the
\* Downloader exists, no step of any Get, successful or failed, changes the
\* contents of the mapping or sends a request to the mapping endpoint.
C24_MappingFetchedOnce ==
    /\ [](Cardinality({k \in 1..Len(requests) : requests[k].uri = URLCIKMapping}) <= 1)
    /\ [](~Created => \A k \in 1..Len(requests) : requests[k].uri = URLCIKMapping)
    /\ [][Created =>
            /\ Created'
            /\ tickerToCIKMap' = tickerToCIKMap
            /\ Sends => requests'[Len(requests')].uri # URLCIKMapping]_vars

\* C24 witness: a Get on a symbol has returned with a filing saved, and the
\* mapping holds what NewDownloader fetched
C24_Witness ==
    /\ pc = "idle"
    /\ ret # Nil
    /\ ~ret.err
    /\ ret.count >= 1
    /\ call.tickerOrCIK = IdTicker
    /\ tickerToCIKMap = [t \in {SymAAPL} |-> CIKApple]

(***************************************************************************)
(* Properties of the save location.                                        *)
(***************************************************************************)
\* C25: GetSaveLocation returns the path download folder / root folder name /
\* company / form / accession number / file name, where company is the ticker
\* when the ticker is not empty and the key otherwise; computing it sends no
\* request, saves nothing and changes nothing of the filter specification.
C25_SaveLocationLayout ==
    /\ [](pc = "located" =>
            /\ Len(ret) = 6
            /\ ret[1] = meta.DownloadFolder
            /\ ret[2] = RootSaveFolderName
            /\ ret[3] = IF meta.Ticker # EmptyString THEN meta.Ticker ELSE meta.CIK
            /\ ret[4] = meta.Form
            /\ ret[5] = call.accessionNumber
            /\ ret[6] = call.saveFilename)
    /\ [][pc = "locate" => UNCHANGED <<meta, call, requests, log, gwSent>>]_vars

\* C25 witness: a location was computed for a specification without ticker
\* and falls under the key
C25_Witness ==
    /\ pc = "located"
    /\ meta.Ticker = EmptyString
    /\ ret[3] = CIKMicrosoft
    /\ ret[6] = PrimaryDocumentHtml

(***************************************************************************)
(* Properties of the order of the requests of one retrieval.               *)
(***************************************************************************)
\* the document requests of the current retrieval, in the order sent
DocRequests == SelectSeq(requests, LAMBDA q : q.stage \in DocStages)

\* index before primary before details
StageRank(stg) == IF stg = "index" THEN 1 ELSE IF stg = "primary" THEN 2 ELSE 3

\* C26: within one retrieval the document requests go out filing by filing in
\* matcher order, and for one filing in the order index, primary, details; a
\* request is sent only when every earlier document request has been answered
\* and handled, so at most one is in flight; a primary or details request of
\* a filing is sent only after that filing's index was fetched and saved, a
\* primary request only if the filing has a primary URI, and a details
\* request only if include-details is set and the details suffix is not empty.
C26_SequentialInMatcherOrder ==
    (stage # "mapping" /\ meta # Nil) =>
        /\ \A j, k \in 1..Len(DocRequests) :
               j < k =>
                   \/ DocRequests[j].i < DocRequests[k].i
                   \/ /\ DocRequests[j].i = DocRequests[k].i
                      /\ StageRank(DocRequests[j].stage) < StageRank(DocRequests[k].stage)
        /\ Len(DocRequests) - Len(log) = IF stage \in DocStages /\ pc \in {"inflight", "recv"}
                                         THEN 1 ELSE 0
        /\ \A k \in 1..Len(DocRequests) :
               LET q == DocRequests[k]
               IN  /\ q.i \in 1..Len(toDownload)
                   /\ q.stage \in {"primary", "details"} => IndexSaved(q.i)
                   /\ q.stage = "primary" => toDownload[q.i].PrimaryDocURI # EmptyString
                   /\ q.stage = "details" =>
                          /\ meta.DownloadDetails
                          /\ toDownload[q.i].DetailsDocSuffix # EmptyString

\* C26 witness: the three documents of the first filing were requested in
\* order, then the index of the second, which has no primary document and no
\* details, then the index and the primary document of the third, which has
\* no details
C26_Witness ==
    /\ Len(DocRequests) = 6
    /\ [k \in 1..6 |-> <<DocRequests[k].i, DocRequests[k].stage>>] =
           << <<1, "index">>, <<1, "primary">>, <<1, "details">>,
              <<2, "index">>, <<3, "index">>, <<3, "primary">> >>
    /\ meta.DownloadDetails

(***************************************************************************)
(* Properties of the date bounds.                                          *)
(***************************************************************************)
\* midnight of the calendar day of an instant
MidnightOf(t) == t - (t % TicksPerDay)

\* C27: the matcher's result depends only on the calendar days of the bounds:
\* it is the result for the specification whose bounds are the midnights of
\* the same days, so a filing dated on the day of a bound given with a time of
\* day is included.
C27_BoundsAreCalendarDays ==
    agg # Nil =>
        LET days == [meta EXCEPT !.After = MidnightOf(meta.After),
                                 !.Before = MidnightOf(meta.Before)]
        IN  /\ FilterFilings(hist, days).kind = agg.kind
            /\ FilterFilings(hist, days).out = agg.out

(***************************************************************************)
(* Properties of the matcher on ragged histories.                          *)
(***************************************************************************)
\* C28: on every decoded history, also one whose form, filing-date or
\* primary-document array is shorter than its accession-number array, the
\* matcher ends with a slice or an error value: it never reads an array
\* position that does not exist.
C28_MatcherNeverCrashes ==
    agg # Nil => agg.kind \in {"ok", "error"}

(***************************************************************************)
(* Properties of termination.                                              *)
(***************************************************************************)
\* FetchAndSaveFilings has been called and has not returned
InCall == pc \in {"wait", "send", "inflight", "recv", "panic"} /\ stage # "mapping"

\* C29: when every request is answered and the limiter keeps refilling, every
\* call of FetchAndSaveFilings returns, having sent at most one history
\* request and at most three document requests per matched filing.
C29_EveryCallReturns ==
    /\ [](meta # Nil =>
            /\ Cardinality({k \in 1..Len(requests) : requests[k].stage = "history"}) <= 1
            /\ Len(DocRequests) <= 3 * Len(toDownload))
    /\ (InCall ~> HasReturned)

\* a call of FetchAndSaveFilings returns or stops in a run-time panic
ReturnsOrPanics == InCall ~> (HasReturned \/ pc = "panic")

(***************************************************************************)
(* Properties of the company directory of an accepted call.                *)
(***************************************************************************)
\* the company directory of the paths the call saves under: the element of
\* GetSaveLocation's path that follows the root folder name
CompanyDirectory(metadata) ==
    LET path == GetSaveLocation(metadata, Acc1, PrimaryDocumentHtml)
        root == CHOOSE k \in 1..Len(path) : path[k] = RootSaveFolderName
    IN  path[root + 1]

\* C30: for every identifier GetWithOptions accepts, the company directory is
\* the 10-digit key when the identifier is a numeral and the trimmed,
\* upper-cased symbol when it is a symbol, so that identifiers differing only
\* by surrounding whitespace or letter case save under the same directory.
C30_CompanyDirectoryIsCanonical ==
    (meta # Nil /\ call # Nil) =>
        LET id == TrimSpace(call.tickerOrCIK)
        IN  CompanyDirectory(meta) =
                IF IsCIK(id) THEN PadZeros(id, CIKLength) ELSE ToUpper(id)

====
